---- MODULE Spec2Model ----
(***************************************************************************)
(* A model of main.ts: the v0.dev automation script.  One run of main is   *)
(* a walk of pc through the awaited calls of main, checkAndLogin,          *)
(* waitForGeneration and extractCode; the cookie file persists from one    *)
(* run to the next.  Text (file content, clipboard content, element        *)
(* descriptions) is a sequence of one-character strings, so that           *)
(* String.includes, toLowerCase, trim, JSON.stringify and JSON.parse are   *)
(* computed and not assumed.                                               *)
(***************************************************************************)
EXTENDS Integers, Sequences, FiniteSets, TLC

VARIABLES
    cookieFile,   \* ./cookies.json: [st, text], text a sequence of JSON tokens
    env,          \* process.env: [email, password], each a text or Unset
    pc,           \* the awaited call main (or a callee) is at
    context,      \* the browser context's cookies, a sequence of cookie objects
    page,         \* the page the browser is on
    loaded,       \* the value loadCookies returned in this run
    trace,        \* the calls of this run that completed, in order
    loginResult,  \* what checkAndLogin did: "none", "true", "false", "threw"
    elapsed,      \* Date.now() - startTime inside waitForGeneration
    attempts,     \* extractCode's attempts
    attemptLog,   \* the calls of the present extractCode attempt, in order
    outcome,      \* "running", "returned" or "threw"
    files,        \* the text main returned under 'code.tsx'
    error,        \* the message of the error main rethrew
    clipboard,    \* codeContent: the clipboard text extractCode read last
    extracted,    \* what extractCode returned under 'code.tsx'
    raisedAt,     \* the call whose error main rethrew
    setCount,     \* Set-Cookie responses the site sent in this run
    prevRun,      \* the previous run, when it returned files: the cookies it saved
    fileAtStart   \* ./cookies.json as this run found it

vars == <<cookieFile, env, pc, context, page, loaded, trace, loginResult,
          elapsed, attempts, attemptLog, outcome, files, error, clipboard,
          extracted, raisedAt, setCount, prevRun, fileAtStart>>

\* ------------------------------------------------------------------ bounds

\* Set-Cookie responses the site may send within one run.
MaxSetCookie == 1

\* ------------------------------------------------------------------- text

Range(s) == {s[i] : i \in DOMAIN s}

\* String.prototype.includes: needle occurs in hay as a contiguous run.
Includes(hay, needle) ==
    \E i \in 1..(Len(hay) - Len(needle) + 1) :
        SubSeq(hay, i, i + Len(needle) - 1) = needle

Upper == <<"A", "B", "C", "D", "E", "F", "G", "H", "I", "J", "K", "L", "M",
           "N", "O", "P", "Q", "R", "S", "T", "U", "V", "W", "X", "Y", "Z">>
Lower == <<"a", "b", "c", "d", "e", "f", "g", "h", "i", "j", "k", "l", "m",
           "n", "o", "p", "q", "r", "s", "t", "u", "v", "w", "x", "y", "z">>

LowerChar(c) ==
    IF \E i \in DOMAIN Upper : Upper[i] = c
    THEN Lower[CHOOSE i \in DOMAIN Upper : Upper[i] = c]
    ELSE c

\* String.prototype.toLowerCase
ToLowerCase(s) == [i \in DOMAIN s |-> LowerChar(s[i])]

IsSpace(c) == c \in {" ", "\n", "\t"}

RECURSIVE TrimStart(_)
TrimStart(s) ==
    IF s # <<>> /\ IsSpace(Head(s)) THEN TrimStart(Tail(s)) ELSE s

RECURSIVE TrimEnd(_)
TrimEnd(s) ==
    IF s # <<>> /\ IsSpace(s[Len(s)]) THEN TrimEnd(SubSeq(s, 1, Len(s) - 1)) ELSE s

\* String.prototype.trim
Trim(s) == TrimEnd(TrimStart(s))

\* ------------------------------------------------------------- JS values

\* A JSON value: t its type, s the text of a string, number or boolean, a the
\* elements of an array or the member values of an object, k the member keys.
Null == [t |-> "null", s |-> <<>>, a |-> <<>>, k |-> <<>>]
Str(s) == [t |-> "str", s |-> s, a |-> <<>>, k |-> <<>>]
Num(s) == [t |-> "num", s |-> s, a |-> <<>>, k |-> <<>>]
Bool(s) == [t |-> "bool", s |-> s, a |-> <<>>, k |-> <<>>]
Arr(a) == [t |-> "arr", s |-> <<>>, a |-> a, k |-> <<>>]
Obj(k, a) == [t |-> "obj", s |-> <<>>, a |-> a, k |-> k]

\* A value that is no JSON value: loadCookies has not returned yet.
NotLoaded == [t |-> "none", s |-> <<>>, a |-> <<>>, k |-> <<>>]

\* ----------------------------------------------------------- JSON tokens

Tok(kind) == [k |-> kind, s |-> <<>>]
StrTok(s) == [k |-> "str", s |-> s]
NumTok(s) == [k |-> "num", s |-> s]
BoolTok(s) == [k |-> "bool", s |-> s]
WsTok(s) == [k |-> "ws", s |-> s]

RECURSIVE Spaces(_)
Spaces(n) == IF n = 0 THEN <<>> ELSE <<" ">> \o Spaces(n - 1)

\* The line break and indentation JSON.stringify(v, null, 2) writes at a depth.
Indent(depth) == <<WsTok(<<"\n">> \o Spaces(2 * depth))>>

RECURSIVE StringifyAt(_, _)
RECURSIVE StringifyElems(_, _, _)
RECURSIVE StringifyMembers(_, _, _)

\* The elements written with no comma between them.
RECURSIVE StringifyElemsNoComma(_, _, _)
StringifyElemsNoComma(v, i, depth) ==
    IF i > Len(v.a) THEN <<>>
    ELSE Indent(depth) \o StringifyAt(v.a[i], depth)
         \o StringifyElemsNoComma(v, i + 1, depth)

StringifyElems(v, i, depth) ==
    IF i > Len(v.a) THEN <<>>
    ELSE Indent(depth) \o StringifyAt(v.a[i], depth)
         \o (IF i < Len(v.a) THEN <<Tok(",")>> ELSE <<>>)
         \o StringifyElems(v, i + 1, depth)

StringifyMembers(v, i, depth) ==
    IF i > Len(v.a) THEN <<>>
    ELSE Indent(depth) \o <<StrTok(v.k[i]), Tok(":"), WsTok(<<" ">>)>>
         \o StringifyAt(v.a[i], depth)
         \o (IF i < Len(v.a) THEN <<Tok(",")>> ELSE <<>>)
         \o StringifyMembers(v, i + 1, depth)

StringifyAt(v, depth) ==
    CASE v.t = "null" -> <<Tok("null")>>
      [] v.t = "str" -> <<StrTok(v.s)>>
      [] v.t = "num" -> <<NumTok(v.s)>>
      [] v.t = "bool" -> <<BoolTok(v.s)>>
      [] v.t = "arr" ->
            IF v.a = <<>> THEN <<Tok("["), Tok("]")>>
            ELSE <<Tok("[")>> \o StringifyElems(v, 1, depth + 1)
                 \o Indent(depth) \o <<Tok("]")>>
      [] v.t = "obj" ->
            IF v.a = <<>> THEN <<Tok("{"), Tok("}")>>
            ELSE <<Tok("{")>> \o StringifyMembers(v, 1, depth + 1)
                 \o Indent(depth) \o <<Tok("}")>>

\* JSON.stringify(cookies, null, 2)
JSONStringify(v) == StringifyAt(v, 0)

\* The first position at or after i that holds no whitespace.
RECURSIVE SkipWs(_, _)
SkipWs(toks, i) ==
    IF i <= Len(toks) /\ toks[i].k = "ws" THEN SkipWs(toks, i + 1) ELSE i

ParseFail == [ok |-> FALSE, v |-> Null, n |-> 0]
ParseOk(v, n) == [ok |-> TRUE, v |-> v, n |-> n]

RECURSIVE ParseValue(_, _)
RECURSIVE ParseElems(_, _, _)
RECURSIVE ParseMembers(_, _, _, _)

\* The elements of an array after "[" or ",": i is where the next one starts.
ParseElems(toks, i, acc) ==
    LET r == ParseValue(toks, i) IN
    IF ~r.ok THEN ParseFail
    ELSE LET j == SkipWs(toks, r.n) IN
         IF j > Len(toks) THEN ParseFail
         ELSE IF toks[j].k = "]" THEN ParseOk(Arr(Append(acc, r.v)), j + 1)
         ELSE IF toks[j].k = "," THEN ParseElems(toks, j + 1, Append(acc, r.v))
         ELSE ParseFail

\* The members of an object after "{" or ",".
ParseMembers(toks, i, keys, vals) ==
    LET p == SkipWs(toks, i) IN
    IF p > Len(toks) \/ toks[p].k # "str" THEN ParseFail
    ELSE LET c == SkipWs(toks, p + 1) IN
         IF c > Len(toks) \/ toks[c].k # ":" THEN ParseFail
         ELSE LET r == ParseValue(toks, c + 1) IN
              IF ~r.ok THEN ParseFail
              ELSE LET j == SkipWs(toks, r.n) IN
                   IF j > Len(toks) THEN ParseFail
                   ELSE IF toks[j].k = "}"
                        THEN ParseOk(Obj(Append(keys, toks[p].s), Append(vals, r.v)), j + 1)
                   ELSE IF toks[j].k = ","
                        THEN ParseMembers(toks, j + 1, Append(keys, toks[p].s),
                                          Append(vals, r.v))
                   ELSE ParseFail

ParseValue(toks, i) ==
    LET p == SkipWs(toks, i) IN
    IF p > Len(toks) THEN ParseFail
    ELSE CASE toks[p].k = "null" -> ParseOk(Null, p + 1)
           [] toks[p].k = "str" -> ParseOk(Str(toks[p].s), p + 1)
           [] toks[p].k = "num" -> ParseOk(Num(toks[p].s), p + 1)
           [] toks[p].k = "bool" -> ParseOk(Bool(toks[p].s), p + 1)
           [] toks[p].k = "[" ->
                LET q == SkipWs(toks, p + 1) IN
                IF q <= Len(toks) /\ toks[q].k = "]" THEN ParseOk(Arr(<<>>), q + 1)
                ELSE ParseElems(toks, p + 1, <<>>)
           [] toks[p].k = "{" ->
                LET q == SkipWs(toks, p + 1) IN
                IF q <= Len(toks) /\ toks[q].k = "}" THEN ParseOk(Obj(<<>>, <<>>), q + 1)
                ELSE ParseMembers(toks, p + 1, <<>>, <<>>)
           [] OTHER -> ParseFail

\* JSON.parse: [ok, v]; ok is FALSE where JSON.parse throws a SyntaxError.
JSONParse(toks) ==
    LET r == ParseValue(toks, 1) IN
    IF r.ok /\ SkipWs(toks, r.n) = Len(toks) + 1 THEN [ok |-> TRUE, v |-> r.v]
    ELSE [ok |-> FALSE, v |-> Null]

\* ---------------------------------------------------------------- cookies

K_name == <<"n", "a", "m", "e">>
K_value == <<"v", "a", "l", "u", "e">>
K_expires == <<"e", "x", "p", "i", "r", "e", "s">>
K_secure == <<"s", "e", "c", "u", "r", "e">>

True == <<"t", "r", "u", "e">>
False == <<"f", "a", "l", "s", "e">>

\* A cookie record of the browser context, as context.cookies() returns it.
Cookie(name, value, expires, secure) ==
    Obj(<<K_name, K_value, K_expires, K_secure>>,
        <<Str(name), Str(value), Num(expires), Bool(secure)>>)

SidOne == Cookie(<<"s", "i", "d">>, <<"s", "1">>, <<"-", "1">>, True)
SidTwo == Cookie(<<"s", "i", "d">>, <<"s", "2">>, <<"-", "1">>, True)
Theme == Cookie(<<"t", "h", "e", "m", "e">>, <<"d", "a", "r", "k">>, <<"7">>, False)

\* The cookies the site may set.
CookieSet == {SidOne, SidTwo, Theme}

HasKey(v, key) == v.t = "obj" /\ \E i \in DOMAIN v.k : v.k[i] = key
Member(v, key) == v.a[CHOOSE i \in DOMAIN v.k : v.k[i] = key]

\* What addCookies accepts as one cookie: an object with a name and a value.
IsCookie(v) ==
    /\ HasKey(v, K_name) /\ Member(v, K_name).t = "str"
    /\ HasKey(v, K_value) /\ Member(v, K_value).t = "str"

CookieName(c) == Member(c, K_name).s

\* The context's cookie store after one cookie is set: a cookie of the same
\* name is replaced in place, a new one is appended.
SetCookie(ctx, c) ==
    IF \E i \in DOMAIN ctx : CookieName(ctx[i]) = CookieName(c)
    THEN [i \in DOMAIN ctx |-> IF CookieName(ctx[i]) = CookieName(c) THEN c ELSE ctx[i]]
    ELSE Append(ctx, c)

\* context.addCookies(cookies): the cookies are set one after the other.
RECURSIVE AddCookies(_, _)
AddCookies(ctx, list) ==
    IF list = <<>> THEN ctx ELSE AddCookies(SetCookie(ctx, Head(list)), Tail(list))

\* What a response of the site leaves in the context: nothing new, or one
\* cookie set, while the run's Set-Cookie budget lasts.
AfterResponse(ctx, n) ==
    {[ctx |-> ctx, n |-> n]}
    \cup (IF n < MaxSetCookie
          THEN {[ctx |-> SetCookie(ctx, c), n |-> n + 1] : c \in CookieSet}
          ELSE {})

\* ------------------------------------------------------------ cookie file

Absent == [st |-> "absent", text |-> <<>>]
Unreadable == [st |-> "unreadable", text |-> <<>>]
FileOf(text) == [st |-> "ok", text |-> text]

\* The states ./cookies.json may be in before the first run.
InitialFiles ==
    { Absent,
      Unreadable,
      FileOf(<<>>),
      FileOf(<<Tok("["), StrTok(<<"s", "i", "d">>)>>),
      FileOf(<<Tok("null")>>),
      FileOf(<<Tok("{"), Tok("}")>>),
      FileOf(<<StrTok(<<"a", "b", "c">>)>>),
      FileOf(<<NumTok(<<"7">>)>>),
      FileOf(<<Tok("["), Tok("null"), Tok("]")>>),
      FileOf(<<Tok("["), WsTok(<<" ">>), Tok("]")>>),
      FileOf(JSONStringify(Arr(<<Theme, SidTwo>>))) }

\* loadCookies
loadCookies(file) ==
    IF file.st # "ok" THEN Arr(<<>>)
    ELSE LET r == JSONParse(file.text) IN
         IF r.ok THEN r.v ELSE Arr(<<>>)

\* saveCookies, when fs.writeFile resolves
saveCookies(cookies) == FileOf(JSONStringify(Arr(cookies)))

\* What fs.writeFile leaves when it rejects: the file as it was, or the file
\* opened for writing and cut to nothing.
WriteFailed(file) == {file, FileOf(<<>>)}

\* -------------------------------------------------------------------- env

Unset == [set |-> FALSE, v |-> <<>>]
EnvValue(v) == [set |-> TRUE, v |-> v]

\* The test as "is defined": the empty text passes.
TruthyWhenSet(x) == x.set

\* A JavaScript string in a condition: undefined and "" are falsy.
Truthy(x) == x.set /\ x.v # <<>>

Email == <<"m", "e", "@", "x", ".", "i", "o">>
Password == <<"p", "w">>

\* The environments a run may start in.
EnvChoices ==
    { [email |-> EnvValue(Email), password |-> EnvValue(Password)],
      [email |-> Unset, password |-> EnvValue(Password)],
      [email |-> EnvValue(Email), password |-> Unset],
      [email |-> EnvValue(<<>>), password |-> EnvValue(Password)] }

\* The test with the password forgotten: only GITHUB_EMAIL is looked at.
HasCredentialsEmailOnly(e) == Truthy(e.email)

\* process.env.GITHUB_EMAIL && process.env.GITHUB_PASSWORD
HasCredentials(e) == Truthy(e.email) /\ Truthy(e.password)

\* ------------------------------------------------------------------ pages

\* The descriptions page.observe returns on each page.
Elements(p) ==
    CASE p = "home_out" ->
            << <<"S", "i", "g", "n", " ", "I", "n">>,
               <<"P", "r", "o", "m", "p", "t", " ", "t", "e", "x", "t", "a", "r", "e", "a">> >>
      [] p = "home_in" ->
            << <<"P", "r", "o", "m", "p", "t", " ", "t", "e", "x", "t", "a", "r", "e", "a">>,
               <<"N", "e", "w", " ", "C", "h", "a", "t">> >>
      [] p = "github" ->
            << <<"G", "i", "t", "H", "u", "b", " ", "L", "o", "g", "i", "n", " ", "f", "o", "r", "m">>,
               <<"P", "a", "s", "s", "w", "o", "r", "d", " ", "f", "i", "e", "l", "d">> >>
      [] OTHER -> <<>>

\* actions.some(a => a.description.toLowerCase().includes('sign in') || ...)
needsLogin(actions) ==
    \E i \in DOMAIN actions :
        \/ Includes(ToLowerCase(actions[i]), <<"s", "i", "g", "n", " ", "i", "n">>)
        \/ Includes(ToLowerCase(actions[i]), <<"l", "o", "g", "i", "n">>)

\* ---------------------------------------------------------- extractCode

\* The texts the clipboard may hold after the Copy button was clicked.
ClipboardTexts ==
    { <<>>,
      <<" ", "\n">>,
      <<"h", "i">>,
      <<"T", "y", "p", "e">>,
      <<"c", "o", "n", "s", "t", " ", "x">>,
      <<" ", "e", "x", "p", "o", "r", "t", "\n">>,
      <<"a", "t", "y", "p", "e", "s">> }

\* The condition without its test for a keyword.
LooksLikeCodeNonBlank(codeContent) ==
    codeContent # <<>> /\ Len(Trim(codeContent)) > 0

\* The condition of lines 163-170 under which extractCode returns codeContent.
LooksLikeCode(codeContent) ==
    /\ codeContent # <<>> /\ Len(Trim(codeContent)) > 0
    /\ \/ Includes(codeContent, <<"i", "m", "p", "o", "r", "t">>)
       \/ Includes(codeContent, <<"f", "u", "n", "c", "t", "i", "o", "n">>)
       \/ Includes(codeContent, <<"c", "o", "n", "s", "t">>)
       \/ Includes(codeContent, <<"c", "l", "a", "s", "s">>)
       \/ Includes(codeContent, <<"e", "x", "p", "o", "r", "t">>)
       \/ Includes(codeContent, <<"i", "n", "t", "e", "r", "f", "a", "c", "e">>)
       \/ Includes(codeContent, <<"t", "y", "p", "e">>)

\* return { 'code.tsx': codeContent }
CodeFile(codeContent) == [has |-> TRUE, code |-> codeContent]
NoFiles == [has |-> FALSE, code |-> <<>>]

maxAttempts == 5

\* ------------------------------------------------------ waitForGeneration

MAX_GENERATION_TIME == 180000
WaitForTimeout == 5000
PollSleep == 5000

\* How long one waitFor may take: it resolves or rejects at once, or at its timeout.
PollDurations == {0, WaitForTimeout}

\* The loop test with <= for <.
StillWaitingInclusive(t) == t <= MAX_GENERATION_TIME

\* while (Date.now() - startTime < MAX_GENERATION_TIME)
StillWaiting(t) == t < MAX_GENERATION_TIME

\* ------------------------------------------------------------------- runs

NoPrev == [ok |-> FALSE, cookies |-> <<>>]

LibraryError == "library call rejected"
LoginFailed == "Login failed - still seeing login elements after attempt"
GenerationTimedOut == "Generation timed out"
ExtractFailed == "Failed to extract code after multiple attempts"
LengthOfNull == "TypeError: Cannot read properties of null (reading 'length')"

Init ==
    /\ cookieFile \in InitialFiles
    /\ env \in EnvChoices
    /\ pc = "goto"
    /\ context = <<>>
    /\ page = "blank"
    /\ loaded = NotLoaded
    /\ trace = <<>>
    /\ loginResult = "none"
    /\ elapsed = 0
    /\ attempts = 0
    /\ attemptLog = <<>>
    /\ outcome = "running"
    /\ files = NoFiles
    /\ error = ""
    /\ clipboard = <<>>
    /\ extracted = NoFiles
    /\ raisedAt = ""
    /\ setCount = 0
    /\ prevRun = NoPrev
    /\ fileAtStart = cookieFile

\* The catch of main without its throw: the error is logged and main returns.
RaiseSwallowed(msg) ==
    /\ pc' = "done"
    /\ outcome' = "returned"
    /\ error' = msg
    /\ raisedAt' = pc
    /\ prevRun' = NoPrev

\* The catch of main: the error is logged and rethrown, main returns nothing.
Raise(msg) ==
    /\ pc' = "done"
    /\ outcome' = "threw"
    /\ error' = msg
    /\ raisedAt' = pc
    /\ prevRun' = NoPrev

\* The script is started again: a new process, a new browser context.
StartRun ==
    /\ pc = "done"
    /\ pc' = "goto"
    /\ env' \in EnvChoices
    /\ context' = <<>>
    /\ page' = "blank"
    /\ loaded' = NotLoaded
    /\ trace' = <<>>
    /\ loginResult' = "none"
    /\ elapsed' = 0
    /\ attempts' = 0
    /\ attemptLog' = <<>>
    /\ outcome' = "running"
    /\ files' = NoFiles
    /\ error' = ""
    /\ clipboard' = <<>>
    /\ extracted' = NoFiles
    /\ raisedAt' = ""
    /\ setCount' = 0
    /\ prevRun' = IF outcome = "returned"
                  THEN [ok |-> TRUE, cookies |-> context]
                  ELSE NoPrev
    /\ fileAtStart' = cookieFile
    /\ UNCHANGED cookieFile

\* await page.goto("https://v0.dev")
Goto ==
    /\ pc = "goto"
    /\ \/ /\ page' \in {"home_out", "home_in"}
          /\ \E r \in AfterResponse(context, setCount) :
                context' = r.ctx /\ setCount' = r.n
          /\ trace' = Append(trace, "goto:" \o page')
          /\ pc' = "loadCookies"
          /\ UNCHANGED <<outcome, error, raisedAt, prevRun>>
       \/ /\ Raise(LibraryError)
          /\ UNCHANGED <<page, context, setCount, trace>>
    /\ UNCHANGED <<cookieFile, env, fileAtStart, loaded, loginResult, elapsed, attempts,
                   attemptLog, files, clipboard, extracted>>

\* const cookies = await loadCookies()
LoadCookiesStep ==
    /\ pc = "loadCookies"
    /\ loaded' = loadCookies(cookieFile)
    /\ trace' = Append(trace, "loadCookies")
    /\ pc' = "ifCookies"
    /\ UNCHANGED <<cookieFile, env, fileAtStart, context, page, loginResult, elapsed, attempts,
                   attemptLog, outcome, files, error, clipboard, extracted,
                   raisedAt, setCount, prevRun>>

\* cookies.length of a value JSON.parse returned; -1 stands for undefined.
LengthOf(v) ==
    CASE v.t = "arr" -> Len(v.a)
      [] v.t = "str" -> Len(v.s)
      [] OTHER -> -1

\* if (cookies.length > 0)
ShouldAddCookies(v) == LengthOf(v) > 0

\* main without its second test: checkAndLogin is called in every run.
ShouldCheckLoginAlways(v) == TRUE

\* if (!cookies.length)
ShouldCheckLogin(v) == LengthOf(v) <= 0

\* The two conditions of main on the loaded cookies.
IfCookies ==
    /\ pc = "ifCookies"
    /\ \/ /\ loaded.t = "null"
          /\ Raise(LengthOfNull)
       \/ /\ loaded.t # "null"
          /\ ShouldAddCookies(loaded)
          /\ pc' = "addCookies"
          /\ UNCHANGED <<outcome, error, raisedAt, prevRun>>
       \/ /\ loaded.t # "null"
          /\ ~ShouldAddCookies(loaded)
          /\ pc' = "ifNoCookies"
          /\ UNCHANGED <<outcome, error, raisedAt, prevRun>>
    /\ UNCHANGED <<cookieFile, env, fileAtStart, context, page, loaded, trace, loginResult,
                   elapsed, attempts, attemptLog, files, clipboard, extracted,
                   setCount>>

\* await context.addCookies(cookies)
AddCookiesStep ==
    /\ pc = "addCookies"
    /\ \/ /\ loaded.t = "arr"
          /\ \A i \in DOMAIN loaded.a : IsCookie(loaded.a[i])
          /\ context' = AddCookies(context, loaded.a)
          /\ trace' = Append(trace, "addCookies")
          /\ pc' = "ifNoCookies"
          /\ UNCHANGED <<outcome, error, raisedAt, prevRun>>
       \/ /\ Raise(LibraryError)
          /\ UNCHANGED <<context, trace>>
    /\ UNCHANGED <<cookieFile, env, fileAtStart, page, loaded, loginResult, elapsed, attempts,
                   attemptLog, files, clipboard, extracted, setCount>>

IfNoCookies ==
    /\ pc = "ifNoCookies"
    /\ pc' = IF ShouldCheckLogin(loaded) THEN "observe" ELSE "enterPrompt"
    /\ UNCHANGED <<cookieFile, env, fileAtStart, context, page, loaded, trace, loginResult,
                   elapsed, attempts, attemptLog, outcome, files, error, clipboard,
                   extracted, raisedAt, setCount, prevRun, fileAtStart>>

\* ---------------------------------------------------------- checkAndLogin

\* const actions = await page.observe(...); const needsLogin = ...
Observe ==
    /\ pc = "observe"
    /\ \/ /\ needsLogin(Elements(page))
          /\ trace' = Append(trace, "observe:login")
          /\ pc' = "clickSignIn"
          /\ prevRun' = NoPrev
          /\ UNCHANGED <<outcome, error, raisedAt, loginResult>>
       \/ /\ ~needsLogin(Elements(page))
          /\ trace' = Append(trace, "observe:none")
          /\ loginResult' = "false"
          /\ pc' = "enterPrompt"
          /\ prevRun' = NoPrev
          /\ UNCHANGED <<outcome, error, raisedAt>>
       \/ /\ Raise(LibraryError)
          /\ UNCHANGED <<trace, loginResult>>
    /\ UNCHANGED <<cookieFile, env, fileAtStart, context, page, loaded, elapsed, attempts,
                   attemptLog, files, clipboard, extracted, setCount>>

\* await page.act({ action: "click the sign in button" })
ClickSignIn ==
    /\ pc = "clickSignIn"
    /\ \/ /\ trace' = Append(trace, "clickSignIn")
          /\ pc' = "clickGithub"
          /\ UNCHANGED <<outcome, error, raisedAt, prevRun>>
       \/ /\ Raise(LibraryError)
          /\ UNCHANGED trace
    /\ UNCHANGED <<cookieFile, env, fileAtStart, context, page, loaded, loginResult, elapsed,
                   attempts, attemptLog, files, clipboard, extracted, setCount>>

\* await page.act({ action: "click sign in with github" }), then the test of
\* the two environment variables.
ClickGithub ==
    /\ pc = "clickGithub"
    /\ \/ /\ trace' = Append(trace, "clickGithub")
          /\ page' = "github"
          /\ IF HasCredentials(env)
             THEN pc' = "enterEmail" /\ UNCHANGED loginResult
             ELSE pc' = "enterPrompt" /\ loginResult' = "false"
          /\ UNCHANGED <<outcome, error, raisedAt, prevRun>>
       \/ /\ Raise(LibraryError)
          /\ UNCHANGED <<trace, page, loginResult>>
    /\ UNCHANGED <<cookieFile, env, fileAtStart, context, loaded, elapsed, attempts,
                   attemptLog, files, clipboard, extracted, setCount>>

\* await page.act({ action: "enter %email% into the email field", ... })
EnterEmail ==
    /\ pc = "enterEmail"
    /\ \/ /\ trace' = Append(trace, "enterEmail")
          /\ pc' = "enterPassword"
          /\ UNCHANGED <<outcome, error, raisedAt, prevRun>>
       \/ /\ Raise(LibraryError)
          /\ UNCHANGED trace
    /\ UNCHANGED <<cookieFile, env, fileAtStart, context, page, loaded, loginResult, elapsed,
                   attempts, attemptLog, files, clipboard, extracted, setCount>>

\* await page.act({ action: "enter %password% into the password field", ... })
EnterPassword ==
    /\ pc = "enterPassword"
    /\ \/ /\ trace' = Append(trace, "enterPassword")
          /\ pc' = "submit"
          /\ UNCHANGED <<outcome, error, raisedAt, prevRun>>
       \/ /\ Raise(LibraryError)
          /\ UNCHANGED trace
    /\ UNCHANGED <<cookieFile, env, fileAtStart, context, page, loaded, loginResult, elapsed,
                   attempts, attemptLog, files, clipboard, extracted, setCount>>

\* await page.act({ action: "click the sign in button" }) and the 2000 ms
\* sleep: GitHub accepts the credentials or shows its form again.
Submit ==
    /\ pc = "submit"
    /\ \/ /\ trace' = Append(trace, "submit")
          /\ \/ /\ page' = "home_in"
                /\ \E r \in AfterResponse(context, setCount) :
                      context' = r.ctx /\ setCount' = r.n
             \/ /\ page' = "github"
                /\ UNCHANGED <<context, setCount>>
          /\ pc' = "observeAfter"
          /\ UNCHANGED <<outcome, error, raisedAt, prevRun>>
       \/ /\ Raise(LibraryError)
          /\ UNCHANGED <<trace, page, context, setCount>>
    /\ UNCHANGED <<cookieFile, env, fileAtStart, loaded, loginResult, elapsed, attempts,
                   attemptLog, files, clipboard, extracted>>

\* const postLoginActions = await page.observe(...); stillNeedsLogin; the throw
ObserveAfter ==
    /\ pc = "observeAfter"
    /\ \/ /\ ~needsLogin(Elements(page))
          /\ trace' = Append(trace, "observeAfter:none")
          /\ pc' = "saveLoginCookies"
          /\ UNCHANGED <<outcome, error, raisedAt, prevRun>>
       \/ /\ needsLogin(Elements(page))
          /\ trace' = Append(trace, "observeAfter:login")
          /\ Raise(LoginFailed)
       \/ /\ Raise(LibraryError)
          /\ UNCHANGED trace
    /\ UNCHANGED <<cookieFile, env, fileAtStart, context, page, loaded, loginResult, elapsed,
                   attempts, attemptLog, files, clipboard, extracted, setCount>>

\* const cookies = await page.context().cookies(); await saveCookies(cookies);
\* return true
SaveLoginCookies ==
    /\ pc = "saveLoginCookies"
    /\ \/ /\ cookieFile' = saveCookies(context)
          /\ trace' = Append(trace, "saveLoginCookies")
          /\ loginResult' = "true"
          /\ pc' = "enterPrompt"
          /\ UNCHANGED <<outcome, error, raisedAt, prevRun>>
       \/ /\ cookieFile' \in WriteFailed(cookieFile)
          /\ Raise(LibraryError)
          /\ UNCHANGED <<trace, loginResult>>
    /\ UNCHANGED <<env, fileAtStart, context, page, loaded, elapsed, attempts, attemptLog,
                   files, clipboard, extracted, setCount>>

\* ------------------------------------------------------------------- main

\* await page.act({ action: "enter %prompt% into the prompt textarea", ... })
EnterPrompt ==
    /\ pc = "enterPrompt"
    /\ \/ /\ trace' = Append(trace, "enterPrompt")
          /\ pc' = "pressEnter"
          /\ prevRun' = NoPrev
          /\ UNCHANGED <<outcome, error, raisedAt>>
       \/ /\ Raise(LibraryError)
          /\ UNCHANGED trace
    /\ UNCHANGED <<cookieFile, env, fileAtStart, context, page, loaded, loginResult, elapsed,
                   attempts, attemptLog, files, clipboard, extracted, setCount>>

\* await page.keyboard.press('Enter'); waitForGeneration takes startTime
PressEnter ==
    /\ pc = "pressEnter"
    /\ \/ /\ trace' = Append(trace, "pressEnter")
          /\ page' = "chat"
          /\ elapsed' = 0
          /\ pc' = "waitForGeneration"
          /\ UNCHANGED <<outcome, error, raisedAt, prevRun>>
       \/ /\ Raise(LibraryError)
          /\ UNCHANGED <<trace, page, elapsed>>
    /\ UNCHANGED <<cookieFile, env, fileAtStart, context, loaded, loginResult, attempts,
                   attemptLog, files, clipboard, extracted, setCount>>

\* waitForGeneration, one turn of its loop: the test of the clock, waitFor on the
\* Retry marker, and the sleep after a waitFor that rejected.
waitForGeneration ==
    /\ pc = "waitForGeneration"
    /\ \/ /\ StillWaiting(elapsed)
          /\ \E d \in PollDurations : elapsed' = elapsed + d
          /\ trace' = Append(trace, "waitForGeneration")
          /\ pc' = "extractCode"
          /\ UNCHANGED <<attempts, outcome, error, raisedAt, prevRun>>
       \/ /\ StillWaiting(elapsed)
          /\ \E d \in PollDurations : elapsed' = elapsed + d + PollSleep
          /\ UNCHANGED <<trace, attempts, pc, outcome, error, raisedAt, prevRun>>
       \/ /\ ~StillWaiting(elapsed)
          /\ Raise(GenerationTimedOut)
          /\ UNCHANGED <<trace, attempts, elapsed>>
    /\ UNCHANGED <<cookieFile, env, fileAtStart, context, page, loaded, loginResult,
                   attemptLog, files, clipboard, extracted, setCount>>

\* ------------------------------------------------------------ extractCode

\* extractCode is entered: let attempts = 0. waitForGeneration has returned
\* and its startTime is out of scope.
ExtractStart ==
    /\ pc = "extractCode"
    /\ attempts' = 0
    /\ elapsed' = 0
    /\ pc' = "extractLoop"
    /\ UNCHANGED <<cookieFile, env, fileAtStart, context, page, loaded, trace, loginResult,
                   attemptLog, outcome, files, error, clipboard, extracted,
                   raisedAt, setCount, prevRun>>

\* while (attempts < maxAttempts) ... throw new Error('Failed to extract ...')
ExtractLoop ==
    /\ pc = "extractLoop"
    /\ \/ /\ attempts < maxAttempts
          /\ pc' = "codeSpan"
          /\ UNCHANGED <<outcome, error, raisedAt, prevRun>>
       \/ /\ ~(attempts < maxAttempts)
          /\ Raise(ExtractFailed)
    /\ UNCHANGED <<cookieFile, env, fileAtStart, context, page, loaded, trace, loginResult,
                   elapsed, attempts, attemptLog, files, clipboard, extracted,
                   setCount>>

\* One awaited call inside the try of an attempt: it resolves and the attempt
\* goes on, or it rejects and the attempt goes where its catch leads.
AttemptCall(at, name, onResolve, onReject) ==
    /\ pc = at
    /\ \/ /\ attemptLog' = Append(attemptLog, name)
          /\ pc' = onResolve
       \/ /\ attemptLog' = Append(attemptLog, name \o "!")
          /\ pc' = onReject
    /\ UNCHANGED <<cookieFile, env, fileAtStart, context, page, loaded, trace, loginResult,
                   elapsed, attempts, outcome, files, error, clipboard, extracted,
                   raisedAt, setCount, prevRun>>

\* await page.locator('span:text("Code")').click()
ClickCodeSpan == AttemptCall("codeSpan", "span", "grantPermissions", "codeRole")

\* The role selector with no fallback after it.
ClickCodeRoleNoFallback ==
    AttemptCall("codeRole", "role", "grantPermissions", "retrySleep")

\* await page.getByRole('tab', { name: 'Code' }).click()
ClickCodeRole == AttemptCall("codeRole", "role", "grantPermissions", "codeAct")

\* await page.act({ action: "click the Code tab in the top navigation" })
ClickCodeAct == AttemptCall("codeAct", "act", "grantPermissions", "retrySleep")

\* await page.context().grantPermissions(['clipboard-read', 'clipboard-write'])
GrantPermissions == AttemptCall("grantPermissions", "grant", "clickCopy", "retrySleep")

\* await copyButton.first().click(), and the 500 ms sleep
ClickCopy == AttemptCall("clickCopy", "copy", "readClipboard", "retrySleep")

\* const codeContent = await page.evaluate(() => navigator.clipboard.readText())
\* and the test of codeContent
ReadClipboard ==
    /\ pc = "readClipboard"
    /\ \/ /\ \E text \in ClipboardTexts :
                /\ clipboard' = text
                /\ IF LooksLikeCode(text)
                   THEN /\ extracted' = CodeFile(text)
                        /\ trace' = Append(trace, "extractCode")
                        /\ pc' = "saveCookies"
                   ELSE /\ pc' = "retrySleep"
                        /\ UNCHANGED <<extracted, trace>>
          /\ attemptLog' = Append(attemptLog, "read")
       \/ /\ attemptLog' = Append(attemptLog, "read!")
          /\ pc' = "retrySleep"
          /\ UNCHANGED <<clipboard, extracted, trace>>
    /\ UNCHANGED <<cookieFile, env, fileAtStart, context, page, loaded, loginResult, elapsed,
                   attempts, outcome, files, error, raisedAt, setCount, prevRun>>

\* The 2000 ms sleep after an attempt that did not return, and attempts++
RetrySleep ==
    /\ pc = "retrySleep"
    /\ attempts' = attempts + 1
    /\ attemptLog' = <<>>
    /\ clipboard' = <<>>
    /\ pc' = "extractLoop"
    /\ UNCHANGED <<cookieFile, env, fileAtStart, context, page, loaded, trace, loginResult,
                   elapsed, outcome, files, error, extracted, raisedAt, setCount,
                   prevRun>>

\* const latestCookies = await context.cookies(); await saveCookies(latestCookies);
\* return files
SaveAndReturn ==
    /\ pc = "saveCookies"
    /\ \/ /\ cookieFile' = saveCookies(context)
          /\ trace' = Append(trace, "saveCookies")
          /\ files' = extracted
          /\ outcome' = "returned"
          /\ pc' = "done"
          /\ UNCHANGED <<error, raisedAt, prevRun>>
       \/ /\ cookieFile' \in WriteFailed(cookieFile)
          /\ Raise(LibraryError)
          /\ UNCHANGED <<trace, files>>
    /\ UNCHANGED <<env, fileAtStart, context, page, loaded, loginResult, elapsed, attempts,
                   attemptLog, clipboard, extracted, setCount>>

Next ==
    \/ StartRun
    \/ Goto
    \/ LoadCookiesStep
    \/ IfCookies
    \/ AddCookiesStep
    \/ IfNoCookies
    \/ Observe
    \/ ClickSignIn
    \/ ClickGithub
    \/ EnterEmail
    \/ EnterPassword
    \/ Submit
    \/ ObserveAfter
    \/ SaveLoginCookies
    \/ EnterPrompt
    \/ PressEnter
    \/ waitForGeneration
    \/ ExtractStart
    \/ ExtractLoop
    \/ ClickCodeSpan
    \/ ClickCodeRole
    \/ ClickCodeAct
    \/ GrantPermissions
    \/ ClickCopy
    \/ ReadClipboard
    \/ RetrySleep
    \/ SaveAndReturn

Spec == Init /\ [][Next]_vars

\* ----------------------------------------------------------------- claims

\* The calls of checkAndLogin, as the trace names them.
LoginEvents ==
    {"observe:login", "observe:none", "clickSignIn", "clickGithub", "enterEmail",
     "enterPassword", "submit", "observeAfter:none", "observeAfter:login",
     "saveLoginCookies"}

\* The places of pc inside checkAndLogin.
LoginPcs ==
    {"observe", "clickSignIn", "clickGithub", "enterEmail", "enterPassword",
     "submit", "observeAfter", "saveLoginCookies"}

\* The places of pc inside extractCode.
ExtractPcs ==
    {"extractCode", "extractLoop", "codeSpan", "codeRole", "codeAct",
     "grantPermissions", "clickCopy", "readClipboard", "retrySleep"}

Did(event) == event \in Range(trace)

\* seq occurs in the trace as a contiguous run.
DidInARow(seq) == Includes(trace, seq)

\* Both environment variables hold a non-empty text.
CredentialsSet ==
    /\ env.email.set /\ env.email.v # <<>>
    /\ env.password.set /\ env.password.v # <<>>

\* The five actions of the GitHub login flow, in order.
LoginFlow == <<"clickSignIn", "clickGithub", "enterEmail", "enterPassword", "submit">>

\* C1 as stated: whenever v0.dev showed sign-in elements after navigation and
\* the prompt was entered, the whole GitHub login flow ran before the prompt,
\* whatever the cookie file held and whether or not the credentials are set.
C1_LoginAlwaysBeforePrompt ==
    (Did("goto:home_out") /\ Did("enterPrompt")) => DidInARow(LoginFlow)

\* C1 as amended: when the prompt was entered, the login flow ran before it
\* exactly in the runs where checkAndLogin was called (no cookies loaded),
\* observed login elements and both credentials are non-empty; with a
\* credential missing only the two clicks ran, and with a non-empty cookie
\* list loaded no step of the login flow ran.
C1_LoginBeforePrompt ==
    Did("enterPrompt") =>
        /\ (Did("observe:login") /\ CredentialsSet) =>
              DidInARow(<<"observe:login">> \o LoginFlow
                        \o <<"observeAfter:none", "saveLoginCookies", "enterPrompt">>)
        /\ (Did("observe:login") /\ ~CredentialsSet) =>
              DidInARow(<<"observe:login", "clickSignIn", "clickGithub", "enterPrompt">>)
        /\ (loaded.t = "arr" /\ loaded.a # <<>>) => Range(trace) \cap LoginEvents = {}
        /\ (loaded.t = "arr" /\ loaded.a = <<>>) =>
              (Did("observe:login") \/ Did("observe:none"))

\* C1's case: the login flow ran and the prompt was entered after it.
C1_Witness == Did("submit") /\ Did("enterPrompt") /\ Did("goto:home_out")

\* main is past its two tests of cookies.length.
PastCookieTests == pc \notin {"goto", "loadCookies", "ifCookies"} /\ loaded.t = "arr"

\* C2: in a run where loadCookies returned a non-empty cookie list the cookies
\* are handed to context.addCookies, after which the context holds each of
\* them, and no call of checkAndLogin happens; in a run where it returned the
\* empty list addCookies is not called and checkAndLogin is.
C2_CookiesSkipLogin ==
    PastCookieTests =>
        IF loaded.a # <<>>
        THEN /\ Range(trace) \cap LoginEvents = {}
             /\ pc \notin LoginPcs /\ raisedAt \notin LoginPcs
             /\ loginResult = "none"
             /\ pc = "addCookies" \/ Did("addCookies") \/ raisedAt = "addCookies"
             /\ Did("addCookies") => Range(loaded.a) \subseteq Range(context)
        ELSE /\ ~Did("addCookies") /\ pc # "addCookies" /\ raisedAt # "addCookies"
             /\ \/ pc \in {"ifNoCookies", "observe"}
                \/ raisedAt = "observe"
                \/ Did("observe:login") \/ Did("observe:none")

\* C2's case: loaded cookies were added and the run went on to the prompt.
C2_Witness ==
    /\ loaded.t = "arr" /\ Len(loaded.a) = 2
    /\ Did("addCookies") /\ Did("enterPrompt")

\* C3 as stated: the time between the start and the end of waitForGeneration
\* never exceeds MAX_GENERATION_TIME.
C3_NeverExceedsMax == pc # "waitForGeneration" => elapsed <= 180000

\* C3 as amended: every turn of the loop either ends waitForGeneration
\* (returning true, or throwing 'Generation timed out' once the clock has
\* reached MAX_GENERATION_TIME) or moves the clock on by at least the 5000 ms
\* sleep, and the time at its end is less than MAX_GENERATION_TIME + 10000:
\* less than 185000 ms when it returns true, and from 180000 ms up to less
\* than 190000 ms when it throws.
C3_WaitEndsWithinOvershoot ==
    [][pc = "waitForGeneration" =>
          \/ /\ pc' = "waitForGeneration"
             /\ elapsed < 180000
             /\ elapsed' >= elapsed + 5000
             /\ elapsed' < 190000
          \/ /\ pc' = "extractCode"
             /\ trace' = Append(trace, "waitForGeneration")
             /\ outcome' = "running"
             /\ elapsed' < 185000
          \/ /\ pc' = "done"
             /\ outcome' = "threw" /\ error' = "Generation timed out"
             /\ elapsed' = elapsed
             /\ elapsed' >= 180000 /\ elapsed' < 190000]_vars

\* C3's case: waitForGeneration timed out later than MAX_GENERATION_TIME.
C3_Witness ==
    /\ outcome = "threw" /\ error = "Generation timed out"
    /\ elapsed > 180000

\* Occurrences of an event in the trace.
Count(event) == Cardinality({i \in DOMAIN trace : trace[i] = event})

\* C4: when a login attempt failed, the login flow was attempted again before
\* main ended in an error.
C4_LoginRetried ==
    (outcome = "threw" /\ Did("observeAfter:login")) => Count("submit") >= 2

\* C5: after a run that returned files the cookie file reads back as exactly
\* the ordered cookies of the context at the end of that run; in the next run
\* loadCookies returns that sequence, and a non-empty one is added to the
\* context before anything else is done with the page.
C5_CookiesRoundTrip ==
    /\ outcome = "returned" =>
          /\ cookieFile.st = "ok"
          /\ JSONParse(cookieFile.text).ok
          /\ JSONParse(cookieFile.text).v = Arr(context)
    /\ (prevRun.ok /\ loaded.t # "none") =>
          /\ loaded = Arr(prevRun.cookies)
          /\ (pc = "ifNoCookies" /\ prevRun.cookies # <<>>) =>
                /\ Did("addCookies")
                /\ Range(prevRun.cookies) \subseteq Range(context)
          /\ (pc = "ifNoCookies" /\ prevRun.cookies = <<>>) => ~Did("addCookies")

\* C5's case: the run after one that saved two cookies has loaded and added them.
C5_Witness ==
    /\ prevRun.ok /\ Len(prevRun.cookies) = 2
    /\ pc = "ifNoCookies" /\ Did("addCookies")

\* C6: whatever the cookie file holds, loadCookies returns an array and main
\* does not end in an error over the loaded value.
C6_LoadIsBestEffort ==
    /\ loaded.t \in {"none", "arr"}
    /\ ~(outcome = "threw" /\ raisedAt = "ifCookies")

\* The keywords extractCode looks for.
Keywords ==
    { <<"i", "m", "p", "o", "r", "t">>,
      <<"f", "u", "n", "c", "t", "i", "o", "n">>,
      <<"c", "o", "n", "s", "t">>,
      <<"c", "l", "a", "s", "s">>,
      <<"e", "x", "p", "o", "r", "t">>,
      <<"i", "n", "t", "e", "r", "f", "a", "c", "e">>,
      <<"t", "y", "p", "e">> }

\* text is non-blank and contains a keyword.
PassesCheck(text) ==
    /\ \E i \in DOMAIN text : text[i] \notin {" ", "\n", "\t"}
    /\ \E kw \in Keywords : Includes(text, kw)

Last(s) == s[Len(s)]

\* C7: extractCode makes at most 5 attempts; what it returns is the clipboard
\* text of the attempt, unchanged, and that text is non-blank and contains a
\* keyword; an attempt is counted as failed exactly when a call of it raised
\* or the text it read fails the check; it throws 'Failed to extract code
\* after multiple attempts' only after 5 failed attempts.
C7_ExtractBounded ==
    /\ attempts <= 5
    /\ pc \in ExtractPcs \ {"extractCode", "extractLoop"} => attempts < 5
    /\ extracted.has =>
          /\ extracted.code = clipboard
          /\ PassesCheck(extracted.code)
          /\ attempts < 5
          /\ Did("extractCode")
    /\ (pc = "retrySleep" /\ Last(attemptLog) = "read") => ~PassesCheck(clipboard)
    /\ pc = "retrySleep" =>
          Last(attemptLog) \in {"act!", "grant!", "copy!", "read!", "read"}
    /\ (outcome = "threw" /\ raisedAt \in ExtractPcs) =>
          /\ error = "Failed to extract code after multiple attempts"
          /\ attempts = 5
          /\ ~extracted.has

\* C7's case: the fifth attempt read text with a keyword between white space
\* and extractCode returned it.
C7_Witness ==
    /\ extracted.has /\ attempts = 4
    /\ extracted.code = <<" ", "e", "x", "p", "o", "r", "t", "\n">>

\* The place of a call in the order of main (checkAndLogin's calls included).
Rank(event) ==
    CASE event \in {"goto:home_out", "goto:home_in"} -> 1
      [] event = "loadCookies" -> 2
      [] event = "addCookies" -> 3
      [] event \in {"observe:login", "observe:none"} -> 4
      [] event = "clickSignIn" -> 5
      [] event = "clickGithub" -> 6
      [] event = "enterEmail" -> 7
      [] event = "enterPassword" -> 8
      [] event = "submit" -> 9
      [] event \in {"observeAfter:login", "observeAfter:none"} -> 10
      [] event = "saveLoginCookies" -> 11
      [] event = "enterPrompt" -> 12
      [] event = "pressEnter" -> 13
      [] event = "waitForGeneration" -> 14
      [] event = "extractCode" -> 15
      [] event = "saveCookies" -> 16
      [] OTHER -> 0

\* The ranks of the steps no run that gets further may leave out.
RequiredRanks == {1, 2, 12, 13, 14, 15, 16}

\* C8: the calls of a run happen in the fixed order navigation, cookie load,
\* (addCookies or login), prompt, Enter, waitForGeneration, extractCode, final
\* saveCookies, none of the required ones left out before a later one;
\* extractCode runs only after waitForGeneration returned; main returns the
\* extracted files exactly when the final save was done; when a step raised,
\* main ends with that error, returns no files, and did no final save (the
\* cookie file is as the run found it, unless the login saved it or a write
\* to it failed).
C8_StepsInOrder ==
    /\ \A i, j \in DOMAIN trace : i < j => 0 < Rank(trace[i]) /\ Rank(trace[i]) < Rank(trace[j])
    /\ \A i \in DOMAIN trace : \A r \in RequiredRanks :
          r < Rank(trace[i]) => \E j \in 1..(i - 1) : Rank(trace[j]) = r
    /\ pc \in ExtractPcs => trace # <<>> /\ Last(trace) = "waitForGeneration"
    /\ Did("saveCookies") <=> outcome = "returned"
    /\ outcome = "returned" =>
          /\ files.has /\ files = extracted
          /\ error = "" /\ raisedAt = ""
          /\ Last(trace) = "saveCookies"
    /\ outcome = "threw" =>
          /\ pc = "done" /\ error # "" /\ raisedAt # ""
          /\ ~files.has
          /\ ~Did("saveCookies")
          /\ (~Did("saveLoginCookies") /\ raisedAt \notin {"saveLoginCookies", "saveCookies"})
                => cookieFile = fileAtStart
    /\ outcome = "running" => ~files.has /\ error = "" /\ pc # "done"

\* C8's case: a run went through every step, the login included, and returned.
C8_Witness == outcome = "returned" /\ Did("saveLoginCookies") /\ files.has

\* The calls of an attempt that open the Code tab, resolved or rejected.
TabCalls == {"span", "span!", "role", "role!", "act", "act!"}

\* C9: within an attempt the span selector is tried first, the role selector
\* only after the span selector raised, the AI act only after the role
\* selector raised too; permissions, the Copy click and the clipboard read
\* follow only a tab call that succeeded; an attempt in which all three tab
\* calls raised ends as failed with nothing else called.
C9_TabFallbackOrder ==
    /\ \A i \in DOMAIN attemptLog :
          LET e == attemptLog[i] IN
          /\ e \in {"span", "span!"} <=> i = 1
          /\ e \in {"role", "role!"} => i = 2 /\ attemptLog[1] = "span!"
          /\ e \in {"act", "act!"} => i = 3 /\ attemptLog[2] = "role!"
          /\ e \in {"grant", "grant!"} => attemptLog[i - 1] \in {"span", "role", "act"}
          /\ e \in {"copy", "copy!"} => attemptLog[i - 1] = "grant"
          /\ e \in {"read", "read!"} => attemptLog[i - 1] = "copy"
    /\ pc = "codeSpan" <=> (pc \in ExtractPcs /\ attemptLog = <<>> /\ pc \notin {"extractCode", "extractLoop"})
    /\ pc = "codeRole" <=> (pc \in ExtractPcs /\ attemptLog = <<"span!">>)
    /\ pc = "codeAct" <=> (pc \in ExtractPcs /\ attemptLog = <<"span!", "role!">>)
    /\ (pc = "retrySleep" /\ Range(attemptLog) \subseteq TabCalls) =>
          attemptLog = <<"span!", "role!", "act!">>
    /\ (pc \in ExtractPcs /\ attemptLog # <<>> /\ Last(attemptLog) = "act!") =>
          pc = "retrySleep" /\ clipboard = <<>>

\* C9's case: the third way of opening the Code tab succeeded after the first
\* two raised, and the clipboard was read.
C9_Witness == attemptLog = <<"span!", "role!", "act", "grant", "copy", "read">>

\* C10 as stated: checkAndLogin has exactly three outcomes, so an error that
\* leaves it is 'Login failed - still seeing login elements after attempt'.
C10_ThreeOutcomes ==
    (outcome = "threw" /\ raisedAt \in LoginPcs) =>
        error = "Login failed - still seeing login elements after attempt"

\* C10 as amended: checkAndLogin has four outcomes.  It returns true iff
\* login elements were observed, both credentials are non-empty, no login
\* elements were observed after submitting and the context's cookies were
\* saved to the cookie file; it throws 'Login failed - ...' iff login elements
\* were observed after submitting; it returns false, the cookie file not
\* written, iff no login elements were observed or they were and a credential
\* is missing (the two buttons clicked, main going on to the prompt); and it
\* passes on the error of a library call of its own that rejected.
C10_LoginOutcomes ==
    /\ loginResult = "true" <=> Did("saveLoginCookies")
    /\ loginResult = "true" =>
          /\ CredentialsSet
          /\ DidInARow(<<"observe:login">> \o LoginFlow
                       \o <<"observeAfter:none", "saveLoginCookies">>)
          /\ raisedAt # "saveCookies" =>
                JSONParse(cookieFile.text).ok /\ JSONParse(cookieFile.text).v = Arr(context)
    /\ (Did("observe:login") /\ CredentialsSet /\ Did("observeAfter:none")
           /\ pc \notin LoginPcs /\ raisedAt \notin LoginPcs) => loginResult = "true"
    /\ Did("observeAfter:login") <=>
          (outcome = "threw" /\ raisedAt = "observeAfter"
              /\ error = "Login failed - still seeing login elements after attempt")
    /\ Did("observeAfter:login") => DidInARow(LoginFlow \o <<"observeAfter:login">>)
    /\ loginResult = "false" <=>
          \/ Did("observe:none")
          \/ Did("observe:login") /\ Did("clickGithub") /\ ~CredentialsSet
    /\ loginResult = "false" =>
          /\ Range(trace) \cap {"enterEmail", "enterPassword", "submit",
                                "saveLoginCookies"} = {}
          /\ Did("observe:login") => DidInARow(<<"observe:login", "clickSignIn", "clickGithub">>)
          /\ pc \notin LoginPcs /\ raisedAt \notin LoginPcs
          /\ pc = "enterPrompt" \/ Did("enterPrompt") \/ raisedAt = "enterPrompt"
          /\ raisedAt # "saveCookies" /\ ~Did("saveCookies") => cookieFile = fileAtStart
    /\ (outcome = "threw" /\ raisedAt \in LoginPcs /\ ~Did("observeAfter:login")) =>
          /\ error = "library call rejected"
          /\ loginResult = "none"

\* C10's case: login elements were observed, a credential is missing, the two
\* buttons were clicked and main went on to enter the prompt.
C10_Witness ==
    /\ loginResult = "false" /\ Did("clickGithub") /\ Did("enterPrompt")

====
